---------------------------- MODULE Spec2Model ----------------------------
(***************************************************************************)
(* State-machine model of the invoice generator.                           *)
(*                                                                         *)
(*  - src/unnamed/part_000: the multi-item InvoiceGenerator component      *)
(*    (item list, derived totals, theme, jsPDF export, download).          *)
(*  - src/unnamed/part_001: the single-service InvoiceGenerator component  *)
(*    (form validation, jsPDF export, generate-and-send flow).             *)
(*                                                                         *)
(* Money is an integer number of 1/10000 dollar, so that 8% of any amount  *)
(* in whole cents is exact; the model does not reproduce IEEE-754 binary   *)
(* rounding.  quantity is a plain integer.  Page coordinates of the        *)
(* multi-item export are millimetres (the jsPDF default unit).             *)
(*                                                                         *)
(* React commits a handler's setState and re-runs the component body       *)
(* before the next discrete event is dispatched, so every handler action   *)
(* below ends with the re-render (Render) that recomputes the derived      *)
(* values of lines 99-101.                                                 *)
(***************************************************************************)
EXTENDS Integers, Sequences, FiniteSets, TLC

VARIABLES
    now,            \* Date.now(), the clock ids are taken from
    items,          \* useState<InvoiceItem[]>            (part_000:61)
    subtotal,       \* derived in the component body      (part_000:99)
    tax,            \*                                    (part_000:100)
    total,          \*                                    (part_000:101)
    invoiceNumber,  \* useState('INV-001')                (part_000:51)
    clientInfo,     \* useState<ClientInfo>               (part_000:54)
    notes,          \* useState(''): its length in characters, one line
    appliedTheme,   \* useState<BrandTheme | null>        (part_000:65)
    documentStyle,  \* the --invoice-* properties of document.documentElement
    doc,            \* what the last generatePDF() drew and saved
    formData,       \* useState<InvoiceData>              (part_001:22)
    isGenerating,   \* useState(false)                    (part_001:30)
    isSending,      \* useState(false)                    (part_001:31)
    pdfData,        \* what the last generatePDF() of part_001 drew
    toast,          \* the description of the last toast shown
    pending,        \* the sendEmail calls awaited, oldest first
    caught,         \* the error the catch block last logged ("": none)
    \* ExpenseReceiptMatcher.tsx
    isProcessing,       \* useState(false)                        (25)
    uploadedFiles,      \* useState([]): the files' MIME types    (26)
    extractedExpenses,  \* useState([])                           (27)
    selectedItems,      \* useState(new Set()): a set of ids      (28)
    processing,         \* the processReceipts calls awaiting their timer
    \* DisputeResolverBot.tsx
    isGeneratingMessages,   \* useState(false), the bot's isGenerating (36)
    context,                \* useState({...})                         (37)
    messageType,            \* useState('reminder')                    (46)
    tone,                   \* useState('professional')                (47)
    generatedMessages,      \* useState([])                            (48)
    generating      \* the generateMessages calls awaiting their timer: what
                    \* the closure of each read

vars == <<now, items, subtotal, tax, total, invoiceNumber, clientInfo,
          notes, appliedTheme, documentStyle, doc, formData, isGenerating,
          isSending, pdfData, toast, pending, caught,
          isProcessing, uploadedFiles, extractedExpenses, selectedItems,
          processing, isGeneratingMessages, context, messageType, tone,
          generatedMessages, generating>>

itemVars == <<items, subtotal, tax, total>>
formVars == <<invoiceNumber, clientInfo, notes>>
themeVars == <<appliedTheme, documentStyle>>
serviceVars == <<formData, isGenerating, isSending, pdfData, pending, caught>>
matcherVars == <<isProcessing, uploadedFiles, extractedExpenses, selectedItems,
                 processing>>
botVars == <<isGeneratingMessages, context, messageType, tone,
             generatedMessages, generating>>
widgetVars == <<matcherVars, botVars>>

-----------------------------------------------------------------------------
(* Bounds of the model. *)

MaxItems == 2       \* cap on the item list "Add Item" is clicked on
MaxListed == 3      \* cap on the item list after the matcher's import
MaxFiles == 2       \* cap on the matcher's list of uploaded files
MaxNow == 4         \* cap on the clock
MaxRows == 20       \* largest item list handed to the export specification

-----------------------------------------------------------------------------
(* Numbers. *)

\* d dollars and c cents, in 1/10000 dollar.
Money(d, c) == (d * 100 + c) * 100

Abs(n) == IF n < 0 THEN 0 - n ELSE n

\* Number.prototype.toFixed(2): the value in whole cents, nearest, a tie
\* going away from zero (the sign is split off first).
toFixed2(v) ==
    LET c == (Abs(v) + 50) \div 100
    IN  IF v < 0 THEN 0 - c ELSE c

\* A parsed number: NaN, or a value.
NaN == [nan |-> TRUE, val |-> 0]
Num(v) == [nan |-> FALSE, val |-> v]

\* Texts typed into the quantity input.
QuantityTexts == {"", "0", "2", "-1"}

\* parseInt(e.target.value): a plain integer, or NaN for no digits.
parseInt(s) ==
    CASE s = "0"  -> Num(0)
      [] s = "2"  -> Num(2)
      [] s = "-1" -> Num(0 - 1)
      [] s = "7"  -> Num(7)
      [] OTHER    -> NaN

\* Texts typed into the rate input.
RateTexts == {"", "50.00"}

\* parseFloat(e.target.value), or NaN, in the given unit: 10000 for money
\* (1/10000 dollar), 1 for a plain number.
parseFloat(s, unit) ==
    CASE s = "0.10"  -> Num(unit \div 10)
      [] s = "2"     -> Num(2 * unit)
      [] s = "50.00" -> Num(50 * unit)
      [] s = "-5"    -> Num(0 - 5 * unit)
      [] OTHER       -> NaN

\* JavaScript's  n || d  on a number: d when n is NaN or 0.
OrElse(n, d) == IF n.nan \/ n.val = 0 THEN d ELSE n.val

\* Texts typed into a description input.
DescriptionTexts == {"Design"}

-----------------------------------------------------------------------------
(* Line items. *)

\* An id is the string Date.now().toString() followed by an optional
\* Math.random() suffix: <<t, 0>> is the bare clock string, <<t, r>> with
\* r > 0 carries the r-th random suffix.  The literal '1' is <<1, 0>>.
InitialItem ==
    [id |-> <<1, 0>>, description |-> "", quantity |-> 1, rate |-> 0, amount |-> 0]

\* The mock receipts the expense matcher extracts (the fields the invoice
\* reads).
mockExpenses ==
    << [id |-> "1", description |-> "Office Supplies - Printer Paper",
        amount |-> Money(24, 99)],
       [id |-> "2", description |-> "Business Lunch - Restaurant ABC",
        amount |-> Money(87, 50)],
       [id |-> "3", description |-> "Travel - Taxi Fare",
        amount |-> Money(15, 30)],
       [id |-> "4", description |-> "Software License - Design Tool",
        amount |-> Money(199, 0)] >>

\* The outcomes of Math.random() told apart.
RandomOutcomes == {1, 2}

\* Selections of the first two mock expenses, in extraction order.
ExpenseSelections ==
    { <<mockExpenses[1]>>, <<mockExpenses[2]>>,
      <<mockExpenses[1], mockExpenses[2]>> }

\* addItem: the list the handler passes to setItems.
addItemList(its, t) ==
    its \o << [id |-> <<t, 0>>, description |-> "", quantity |-> 1,
               rate |-> 0, amount |-> 0] >>

SelectSeqNot(its, id) ==
    LET keep(item) == item.id # id IN SelectSeq(its, keep)

\* removeItem: the list after the handler (unchanged when one item is left).
removeItemList(its, id) ==
    IF Len(its) > 1 THEN SelectSeqNot(its, id) ELSE its

\* updatedItem without the recomputation of the amount.
updateItemStale(item, field, value) == [item EXCEPT ![field] = value]

\* updateItem's callback on the matching item: the field is replaced and, for
\* quantity or rate, the amount is recomputed from the updated item.
updatedItem(item, field, value) ==
    LET u == [item EXCEPT ![field] = value]
    IN  IF field = "quantity" \/ field = "rate"
        THEN [u EXCEPT !.amount = u.quantity * u.rate]
        ELSE u

\* updateItem with the test of the id left out of the map callback.
updateItemListAll(its, id, field, value) ==
    [i \in 1..Len(its) |-> updatedItem(its[i], field, value)]

\* updateItem: items.map(...)
updateItemList(its, id, field, value) ==
    [i \in 1..Len(its) |->
        IF its[i].id = id THEN updatedItem(its[i], field, value) ELSE its[i]]

\* handleExpenseItemsAdd's map callback: one new item per expense.
expenseItem(expense, t, r) ==
    [id |-> <<t, r>>, description |-> expense.description, quantity |-> 1,
     rate |-> expense.amount, amount |-> expense.amount]

\* handleExpenseItemsAdd with the two spreads swapped.
handleExpenseItemsAddListFront(prev, expenseItems, t, rs) ==
    [k \in 1..Len(expenseItems) |-> expenseItem(expenseItems[k], t, rs[k])] \o prev

\* handleExpenseItemsAdd: prev => [...prev, ...newItems]; rs[k] is the k-th
\* Math.random() outcome.
handleExpenseItemsAddList(prev, expenseItems, t, rs) ==
    prev \o [k \in 1..Len(expenseItems) |-> expenseItem(expenseItems[k], t, rs[k])]

-----------------------------------------------------------------------------
(* Derived totals (the component body, re-run on every render). *)

RECURSIVE reduceAmount(_, _)
\* items.reduce((sum, item) => sum + item.amount, acc), from the left.
reduceAmount(its, acc) ==
    IF its = <<>> THEN acc
    ELSE reduceAmount(Tail(its), acc + Head(its).amount)

\* subtotalOf counting the first item only.
subtotalOfWrong(its) == IF its = <<>> THEN 0 ELSE Head(its).amount

subtotalOf(its) == reduceAmount(its, 0)

\* taxOf at 18%.
taxOfWrongRate(sub) == (sub * 18) \div 100

\* subtotal * 0.08, not rounded.
taxOf(sub) == (sub * 8) \div 100

totalOf(sub, tx) == sub + tx

\* The re-render after setItems(newItems).
Render(newItems) ==
    /\ items' = newItems
    /\ subtotal' = subtotalOf(newItems)
    /\ tax' = taxOf(subtotalOf(newItems))
    /\ total' = totalOf(subtotalOf(newItems), taxOf(subtotalOf(newItems)))

-----------------------------------------------------------------------------
(* Initial state and the item-list handlers. *)

NoTheme ==
    [id |-> "null", primary |-> "", secondary |-> "", accent |-> "",
     heading |-> "", body |-> ""]

\* Texts are kept as the lengths of their words (single spaces between
\* them); <<>> is the empty string.
InitialFormData ==
    [clientName |-> "", serviceDescription |-> <<>>, totalHours |-> 0,
     hourlyRate |-> 0, userName |-> "", userEmail |-> ""]

NoStyle == [primary |-> "", secondary |-> "", accent |-> ""]

\* from: the values of the state the exporting handler's closure read.
NoDoc ==
    [prims |-> <<>>, pages |-> 0, fileName |-> "", saved |-> FALSE,
     from |-> <<>>]

\* The state of the expense matcher and of the dispute bot after mounting;
\* the bot's context starts from the invoiceContext prop (part_000:523-531).
\* The model follows one mounted instance of each.
InitWidgets ==
    /\ isProcessing = FALSE
    /\ uploadedFiles = <<>>
    /\ extractedExpenses = <<>>
    /\ selectedItems = {}
    /\ processing = 0
    /\ isGeneratingMessages = FALSE
    /\ context = [invoiceNumber |-> invoiceNumber,
                  clientName |-> clientInfo.name, amount |-> total]
    /\ messageType = "reminder"
    /\ tone = "professional"
    /\ generatedMessages = <<>>
    /\ generating = <<>>

Init ==
    /\ now = 2
    /\ items = <<InitialItem>>
    /\ subtotal = subtotalOf(<<InitialItem>>)
    /\ tax = taxOf(subtotalOf(<<InitialItem>>))
    /\ total = totalOf(subtotalOf(<<InitialItem>>), taxOf(subtotalOf(<<InitialItem>>)))
    /\ invoiceNumber = "INV-001"
    /\ clientInfo = [name |-> "", email |-> "", company |-> ""]
    /\ notes = 0
    /\ appliedTheme = NoTheme
    /\ documentStyle = NoStyle
    /\ doc = NoDoc
    /\ formData = InitialFormData
    /\ isGenerating = FALSE
    /\ isSending = FALSE
    /\ pdfData = NoDoc
    /\ toast = ""
    /\ pending = <<>>
    /\ caught = ""
    /\ InitWidgets

\* What Date.now() may read in a handler: the millisecond of the last
\* reading or a later one (the clock does not go back, and it need not have
\* advanced between two events).
DateNow == { t \in {now, now + 1} : t <= MaxNow }

\* The "Add Item" button.
addItem ==
    \E t \in DateNow :
        /\ Len(items) < MaxItems
        /\ now' = t
        /\ Render(addItemList(items, t))
        /\ UNCHANGED <<widgetVars, formVars, themeVars, doc, toast, serviceVars>>

\* The remove button of row i.
removeItem ==
    \E i \in 1..Len(items) :
        /\ Render(removeItemList(items, items[i].id))
        /\ UNCHANGED <<widgetVars, now, formVars, themeVars, doc, toast, serviceVars>>

\* onChange of row i's description input.
updateItemDescription ==
    \E i \in 1..Len(items), s \in DescriptionTexts :
        /\ Render(updateItemList(items, items[i].id, "description", s))
        /\ UNCHANGED <<widgetVars, now, formVars, themeVars, doc, toast, serviceVars>>

\* onChange of row i's quantity input: parseInt(e.target.value) || 1.
updateItemQuantity ==
    \E i \in 1..Len(items), s \in QuantityTexts :
        /\ Render(updateItemList(items, items[i].id, "quantity",
                                 OrElse(parseInt(s), 1)))
        /\ UNCHANGED <<widgetVars, now, formVars, themeVars, doc, toast, serviceVars>>

\* onChange of row i's rate input: parseFloat(e.target.value) || 0.
updateItemRate ==
    \E i \in 1..Len(items), s \in RateTexts :
        /\ Render(updateItemList(items, items[i].id, "rate",
                                 OrElse(parseFloat(s, 10000), 0)))
        /\ UNCHANGED <<widgetVars, now, formVars, themeVars, doc, toast, serviceVars>>

\* The expense matcher's onAddToInvoice callback; every new item reads the
\* same Date.now().
handleExpenseItemsAdd ==
    \E expenseItems \in ExpenseSelections, t \in DateNow :
        \E rs \in [1..Len(expenseItems) -> RandomOutcomes] :
            /\ Len(items) + Len(expenseItems) <= MaxItems
            /\ now' = t
            /\ Render(handleExpenseItemsAddList(items, expenseItems, t, rs))
            /\ UNCHANGED <<widgetVars, formVars, themeVars, doc, toast, serviceVars>>

\* Editing the item list.
NextItems ==
    \/ addItem
    \/ removeItem
    \/ updateItemDescription
    \/ updateItemQuantity
    \/ updateItemRate
    \/ handleExpenseItemsAdd

SpecItems == Init /\ [][NextItems]_vars

-----------------------------------------------------------------------------
(* Two handler calls in one React batch.  The handlers are closures over   *)
(* the items of the last render and are handed out as callbacks; calls     *)
(* made before the next render queue their setItems updates, which React   *)
(* applies in order when it re-renders.                                    *)

\* The calls that can be made on the rendered list its.
Calls(its) ==
    { [op |-> "addItem"] }
    \cup { [op |-> "removeItem", id |-> its[i].id] : i \in 1..Len(its) }
    \cup { [op |-> "updateItem", id |-> its[i].id, field |-> "description",
            value |-> v] : i \in 1..Len(its), v \in DescriptionTexts }
    \cup { [op |-> "updateItem", id |-> its[i].id, field |-> "quantity",
            value |-> OrElse(parseInt(v), 1)] :
                i \in 1..Len(its), v \in QuantityTexts }
    \cup { [op |-> "updateItem", id |-> its[i].id, field |-> "rate",
            value |-> OrElse(parseFloat(v, 10000), 0)] :
                i \in 1..Len(its), v \in RateTexts }
    \cup UNION { { [op |-> "handleExpenseItemsAdd", expenseItems |-> e, rs |-> rs] :
                     rs \in [1..Len(e) -> RandomOutcomes] } :
                 e \in ExpenseSelections }

\* What the call hands to setItems when its closure holds the list closure
\* and Date.now() reads t: a list, an updater function appending new items
\* (handleExpenseItemsAdd alone), or nothing (removeItem on a single item).
setItemsArgument(call, closure, t) ==
    CASE call.op = "addItem" ->
            [kind |-> "value", value |-> addItemList(closure, t)]
      [] call.op = "removeItem" ->
            IF Len(closure) > 1
            THEN [kind |-> "value", value |-> SelectSeqNot(closure, call.id)]
            ELSE [kind |-> "none"]
      [] call.op = "updateItem" ->
            [kind |-> "value",
             value |-> updateItemList(closure, call.id, call.field, call.value)]
      [] call.op = "handleExpenseItemsAdd" ->
            [kind |-> "updater",
             new |-> handleExpenseItemsAddList(<<>>, call.expenseItems, t, call.rs)]

\* React applying one queued update to the state.
applyUpdate(state, update) ==
    CASE update.kind = "value"   -> update.value
      [] update.kind = "updater" -> state \o update.new
      [] update.kind = "none"    -> state

\* The calls that append to the list, and the calls that edit it.
Appending(its) ==
    { c \in Calls(its) : c.op \in {"addItem", "handleExpenseItemsAdd"} }
Editing(its) == { c \in Calls(its) : c.op # "handleExpenseItemsAdd" }

\* Two calls in one batch, both closed over the rendered items: one that
\* appends, then one of addItem, removeItem and updateItem; then the
\* re-render.
batchedCalls ==
    \E t \in DateNow :
        \E c1 \in Appending(items), c2 \in Editing(items) :
            LET queued == << setItemsArgument(c1, items, t),
                             setItemsArgument(c2, items, t) >>
                result == applyUpdate(applyUpdate(items, queued[1]), queued[2])
            IN  /\ Len(applyUpdate(items, queued[1])) <= MaxItems
                /\ now' = t
                /\ Render(result)
                /\ UNCHANGED <<widgetVars, formVars, themeVars, doc, toast, serviceVars>>

SpecBatch == Init /\ [][batchedCalls]_vars

-----------------------------------------------------------------------------
(* The other inputs of the multi-item form. *)

\* Texts typed into the invoice number input.
InvoiceNumberTexts == {"", "INV-001"}

\* Lengths, in characters, of the texts typed into the notes textarea (one
\* line, no line break).
NotesLengths == {0, 500}

\* Client records typed in or handed over by the client enricher.
ClientInfos ==
    { [name |-> "", email |-> "", company |-> ""],
      [name |-> "Acme", email |-> "billing@acme.test", company |-> "Acme Inc"] }

\* Themes handed over by the branding component: 'Creative Gradient' of its
\* mockThemes.
BrandThemes ==
    { [id |-> "2", primary |-> "#7c3aed", secondary |-> "#ec4899",
       accent |-> "#06b6d4", heading |-> "Poppins", body |-> "Roboto"] }

\* The values a BrandTheme may hold: every field is a string, set or empty.
ThemeInputs ==
    { [id |-> "custom", primary |-> p, secondary |-> s, accent |-> a,
       heading |-> h, body |-> b] :
        p \in {"", "#7c3aed"}, s \in {"", "#ec4899"}, a \in {"", "#06b6d4"},
        h \in {"", "Poppins"}, b \in {"", "Roboto"} }

\* handleThemeApply's three setProperty calls (an empty value removes the
\* property).
styleOf(theme) ==
    [primary |-> theme.primary, secondary |-> theme.secondary,
     accent |-> theme.accent]

setInvoiceNumber ==
    \E s \in InvoiceNumberTexts :
        /\ invoiceNumber' = s
        /\ UNCHANGED <<widgetVars, now, itemVars, clientInfo, notes, themeVars, doc, toast, serviceVars>>

setNotes ==
    \E n \in NotesLengths :
        /\ notes' = n
        /\ UNCHANGED <<widgetVars, now, itemVars, invoiceNumber, clientInfo, themeVars, doc,
                       toast, serviceVars>>

\* The client inputs, and the client enricher's onClientInfoUpdate callback.
handleClientInfoUpdate ==
    \E info \in ClientInfos :
        /\ clientInfo' = info
        /\ UNCHANGED <<widgetVars, now, itemVars, invoiceNumber, notes, themeVars, doc,
                       toast, serviceVars>>

\* The branding component's onApplyTheme callback.
handleThemeApply ==
    \E theme \in BrandThemes :
        /\ appliedTheme' = theme
        /\ documentStyle' = styleOf(theme)
        /\ UNCHANGED <<widgetVars, now, itemVars, formVars, doc, toast, serviceVars>>

-----------------------------------------------------------------------------
(* generatePDF of the multi-item form: what is drawn, where. *)

\* new jsPDF(): one A4 portrait page, in millimetres.
PageWidth == 210
PageHeight == 297

\* One doc.text(...) call: the text (a fixed label and the values printed
\* after it) at (x, y), on the current page, in the current size and colour.
\* row is the index of the line item a table row belongs to, 0 elsewhere.
Text(region, row, label, val, x, y, size, color) ==
    [region |-> region, row |-> row, label |-> label, val |-> val,
     x |-> x, y |-> y, size |-> size, color |-> color, page |-> 1]

\* value || fallback on strings: the empty string is falsy.  The fields of
\* NoTheme (appliedTheme = null, read through ?.) are empty.
orDefault(value, fallback) == IF value = "" THEN fallback ELSE value

\* primaryColor with the fallback left out.
primaryColorUnresolved == appliedTheme.primary

\* appliedTheme?.colors.primary || '#2563eb'
primaryColor ==
    IF appliedTheme = NoTheme \/ appliedTheme.primary = ""
    THEN "#2563eb" ELSE appliedTheme.primary

\* previewFontFamily with the fallback left out.
previewFontFamilyUnresolved == appliedTheme.body

\* The preview's inline styles (lines 406-409, 416-419, 433, 449, 481, 491).
previewColor == orDefault(appliedTheme.secondary, "#1f2937")
previewFontFamily == orDefault(appliedTheme.body, "inherit")
previewHeadingColor == orDefault(appliedTheme.primary, "#2563eb")
previewHeadingFontFamily == orDefault(appliedTheme.heading, "inherit")
previewBorderColor == orDefault(appliedTheme.accent, "#f59e0b")

\* Header (lines 134-137).
drawTitle == << Text("title", 0, "INVOICE", <<>>, 20, 30, 24, primaryColor) >>

\* Invoice details (lines 139-144); the two dates are printed as typed and
\* are not part of the model's state.
drawMetadata ==
    << Text("metadata", 0, "Invoice #: ", <<invoiceNumber>>, 20, 50, 12, "#000000"),
       Text("metadata", 0, "Date: ", <<>>, 20, 60, 12, "#000000"),
       Text("metadata", 0, "Due Date: ", <<>>, 20, 70, 12, "#000000") >>

\* Client info (lines 146-150).
drawBillTo ==
    << Text("billTo", 0, "Bill To:", <<>>, 120, 50, 12, "#000000"),
       Text("billTo", 0, "", <<clientInfo.name>>, 120, 60, 12, "#000000") >>
    \o (IF clientInfo.company # ""
        THEN << Text("billTo", 0, "", <<clientInfo.company>>, 120, 70, 12, "#000000") >>
        ELSE <<>>)
    \o (IF clientInfo.email # ""
        THEN << Text("billTo", 0, "", <<clientInfo.email>>, 120, 80, 12, "#000000") >>
        ELSE <<>>)

\* The table's header row (lines 153-157).
drawTableHeader(yPosition) ==
    << Text("tableHeader", 0, "Description", <<>>, 20, yPosition, 12, "#000000"),
       Text("tableHeader", 0, "Qty", <<>>, 120, yPosition, 12, "#000000"),
       Text("tableHeader", 0, "Rate", <<>>, 140, yPosition, 12, "#000000"),
       Text("tableHeader", 0, "Amount", <<>>, 170, yPosition, 12, "#000000") >>

\* One table row (lines 161-164).
drawItem(item, i, yPosition) ==
    << Text("row", i, "", <<item.description>>, 20, yPosition, 12, "#000000"),
       Text("row", i, "", <<item.quantity>>, 120, yPosition, 12, "#000000"),
       Text("row", i, "$", <<toFixed2(item.rate)>>, 140, yPosition, 12, "#000000"),
       Text("row", i, "$", <<toFixed2(item.amount)>>, 170, yPosition, 12, "#000000") >>

\* yPosition after the row at yPosition, were it never advanced.
nextRowSame(yPosition) == yPosition

\* yPosition += 10 (line 165).
nextRow(yPosition) == yPosition + 10

RECURSIVE drawItems(_, _, _)
\* items.forEach(...) from item i on, the cursor at yPosition (lines 160-166):
\* the rows drawn and the cursor after them.
drawItems(its, i, yPosition) ==
    IF i > Len(its) THEN [prims |-> <<>>, yPosition |-> yPosition]
    ELSE LET rest == drawItems(its, i + 1, nextRow(yPosition))
         IN  [prims |-> drawItem(its[i], i, yPosition) \o rest.prims,
              yPosition |-> rest.yPosition]

\* Totals (lines 168-173).
drawTotals(yPosition) ==
    << Text("totals", 0, "Subtotal: $", <<toFixed2(subtotal)>>, 140, yPosition,
            12, "#000000"),
       Text("totals", 0, "Tax: $", <<toFixed2(tax)>>, 140, yPosition + 10,
            12, "#000000"),
       Text("totals", 0, "Total: $", <<toFixed2(total)>>, 140, yPosition + 20,
            14, "#000000") >>

\* Notes (lines 175-179): the whole text in one doc.text call, no maxWidth.
drawNotes(yPosition) ==
    IF notes # 0
    THEN << Text("notes", 0, "Notes:", <<>>, 20, yPosition + 30, 10, "#000000"),
            Text("notes", 0, "", <<notes>>, 20, yPosition + 40, 10, "#000000") >>
    ELSE <<>>

\* new jsPDF() were the handler to keep drawing on the document of the
\* export before.
newJsPDFReused == doc.prims

\* const doc = new jsPDF() (line 129): a fresh document, nothing drawn.
newJsPDF == <<>>

\* `invoice-${invoiceNumber}.pdf` (line 181).
fileNameOf(number) == "invoice-" \o number \o ".pdf"

\* The document generatePDF builds and saves (lines 128-181).  addPage is
\* never called: everything is drawn on page 1.
pdfDocument ==
    LET rows == drawItems(items, 1, 100 + 10)
        yPosition == rows.yPosition + 10
    IN  [prims |-> newJsPDF \o drawTitle \o drawMetadata \o drawBillTo
                   \o drawTableHeader(100)
                   \o rows.prims \o drawTotals(yPosition) \o drawNotes(yPosition),
         pages |-> 1,
         fileName |-> fileNameOf(invoiceNumber),
         saved |-> TRUE,
         from |-> [invoiceNumber |-> invoiceNumber, clientInfo |-> clientInfo,
                   items |-> items, notes |-> notes,
                   appliedTheme |-> appliedTheme]]

\* The "Download PDF" button.
generatePDF ==
    /\ doc' = pdfDocument
    /\ toast' = "Your invoice has been downloaded successfully."
    /\ UNCHANGED <<widgetVars, now, itemVars, formVars, themeVars, serviceVars>>

\* The list after n - 1 clicks on "Add Item".
RECURSIVE AddedItems(_)
AddedItems(n) ==
    IF n = 1 THEN <<InitialItem>> ELSE addItemList(AddedItems(n - 1), n)

\* The export is a function of the form's state: it is checked from item
\* lists of every length up to MaxRows.
InitPDF ==
    \E n \in 1..MaxRows :
        /\ now = n + 1
        /\ items = AddedItems(n)
        /\ subtotal = subtotalOf(AddedItems(n))
        /\ tax = taxOf(subtotalOf(AddedItems(n)))
        /\ total = totalOf(subtotalOf(AddedItems(n)), taxOf(subtotalOf(AddedItems(n))))
        /\ invoiceNumber = "INV-001"
        /\ clientInfo = [name |-> "", email |-> "", company |-> ""]
        /\ notes = 0
        /\ appliedTheme = NoTheme
        /\ documentStyle = NoStyle
        /\ doc = NoDoc
        /\ formData = InitialFormData
        /\ isGenerating = FALSE
        /\ isSending = FALSE
        /\ pdfData = NoDoc
        /\ toast = ""
        /\ pending = <<>>
    /\ caught = ""
    /\ InitWidgets

NextPDF ==
    \/ setInvoiceNumber
    \/ setNotes
    \/ handleClientInfoUpdate
    \/ handleThemeApply
    \/ generatePDF

SpecPDF == InitPDF /\ [][NextPDF]_vars

\* Theme resolution is checked from every value of appliedTheme: null and
\* every BrandTheme of ThemeInputs, as handleThemeApply leaves them.
InitTheme ==
    /\ now = 2
    /\ items = <<InitialItem>>
    /\ subtotal = subtotalOf(<<InitialItem>>)
    /\ tax = taxOf(subtotalOf(<<InitialItem>>))
    /\ total = totalOf(subtotalOf(<<InitialItem>>), taxOf(subtotalOf(<<InitialItem>>)))
    /\ invoiceNumber = "INV-001"
    /\ clientInfo = [name |-> "", email |-> "", company |-> ""]
    /\ notes = 0
    /\ \/ appliedTheme = NoTheme /\ documentStyle = NoStyle
       \/ \E theme \in ThemeInputs :
             appliedTheme = theme /\ documentStyle = styleOf(theme)
    /\ doc = NoDoc
    /\ formData = InitialFormData
    /\ isGenerating = FALSE
    /\ isSending = FALSE
    /\ pdfData = NoDoc
    /\ toast = ""
    /\ pending = <<>>
    /\ caught = ""
    /\ InitWidgets

SpecTheme == InitTheme /\ [][NextPDF]_vars

-----------------------------------------------------------------------------
(* The single-service form (part_001).  Page coordinates of its export are *)
(* 1/100 mm.                                                               *)

\* Number of words of the longest service description typed.
MaxWords == 70

\* A text of n words of nine characters each.
Words(n) == [i \in 1..n |-> 9]

\* Texts typed into the service description textarea.
\* <<0, 0>> is a single space.
ServiceDescriptions == {<<>>, <<0, 0>>, Words(MaxWords)}

ClientNameTexts == {"", " ", "Acme"}
UserNameTexts == {"", "Dana"}
UserEmailTexts == {"", "dana.test", "dana@mail.test"}
HoursTexts == {"", "2"}

\* String.prototype.trim on the texts above.
trim(s) == IF s = " " THEN "" ELSE s

\* userEmail.includes('@') on the texts above.
includesAt(s) == s = "dana@mail.test"

\* handleInputChange(field, value)
handleInputChange ==
    /\ \E field \in {"clientName", "serviceDescription", "totalHours",
                     "hourlyRate", "userName", "userEmail"} :
          \E value \in
              CASE field = "clientName"         -> ClientNameTexts
                [] field = "serviceDescription" -> ServiceDescriptions
                [] field = "totalHours" ->
                       { OrElse(parseFloat(t, 1), 0) : t \in HoursTexts }
                [] field = "hourlyRate" ->
                       { OrElse(parseFloat(t, 10000), 0) : t \in RateTexts }
                [] field = "userName"           -> UserNameTexts
                [] field = "userEmail"          -> UserEmailTexts :
              formData' = [formData EXCEPT ![field] = value]
    /\ UNCHANGED <<widgetVars, now, itemVars, formVars, themeVars, doc, toast,
                   isGenerating, isSending, pdfData, pending, caught>>

\* String.prototype.trim on a text kept as its words' lengths.
trimWords(ws) == IF \A i \in 1..Len(ws) : ws[i] = 0 THEN <<>> ELSE ws

\* validateForm with the check of the email address left out.
validateFormNoEmail(fd) ==
    CASE trim(fd.clientName) = ""       -> "Please enter the client's name"
      [] trimWords(fd.serviceDescription) = <<>>
                                        -> "Please enter a service description"
      [] fd.totalHours <= 0             -> "Please enter valid total hours"
      [] fd.hourlyRate <= 0             -> "Please enter a valid hourly rate"
      [] trim(fd.userName) = ""         -> "Please enter your name"
      [] OTHER                          -> ""

\* validateForm with the check of the email address made before the check
\* of the user name.
validateFormReordered(fd) ==
    CASE trim(fd.clientName) = ""       -> "Please enter the client's name"
      [] trimWords(fd.serviceDescription) = <<>>
                                        -> "Please enter a service description"
      [] fd.totalHours <= 0             -> "Please enter valid total hours"
      [] fd.hourlyRate <= 0             -> "Please enter a valid hourly rate"
      [] trim(fd.userEmail) = "" \/ ~includesAt(fd.userEmail)
                                        -> "Please enter a valid email address"
      [] trim(fd.userName) = ""         -> "Please enter your name"
      [] OTHER                          -> ""

\* validateForm: "" when every check passes, else the description of the
\* toast of the first check that fails.
validateForm(fd) ==
    CASE trim(fd.clientName) = ""       -> "Please enter the client's name"
      [] trimWords(fd.serviceDescription) = <<>>
                                        -> "Please enter a service description"
      [] fd.totalHours <= 0             -> "Please enter valid total hours"
      [] fd.hourlyRate <= 0             -> "Please enter a valid hourly rate"
      [] trim(fd.userName) = ""         -> "Please enter your name"
      [] trim(fd.userEmail) = "" \/ ~includesAt(fd.userEmail)
                                        -> "Please enter a valid email address"
      [] OTHER                          -> ""

\* Characters of 12 pt text that fit the width pageWidth - 40 (170 mm).
LineCapacity == 80

\* Distance between the baselines of two lines of 12 pt text, in 1/100 mm
\* (12 pt x 1.15, the jsPDF line height factor).
LineHeight == 487

RECURSIVE splitTextToSize(_, _, _, _)
\* doc.splitTextToSize(text, maxWidth): the lengths of the lines the words
\* from word i on are wrapped into; cur is the length of the line being
\* filled (0: none), lines the lines already full.
splitTextToSize(words, i, cur, lines) ==
    IF i > Len(words)
    THEN IF cur > 0 \/ lines = <<>> THEN Append(lines, cur) ELSE lines
    ELSE IF cur = 0
         THEN splitTextToSize(words, i + 1, words[i], lines)
         ELSE IF cur + 1 + words[i] <= LineCapacity
              THEN splitTextToSize(words, i + 1, cur + 1 + words[i], lines)
              ELSE splitTextToSize(words, i + 1, words[i], Append(lines, cur))

\* tableStartY (line 136).
tableStartY == 20000

\* doc.text(splitDescription, 20, 170): line i on its own baseline.
drawDescription(lines) ==
    [i \in 1..Len(lines) |->
        Text("description", i, "", <<lines[i]>>, 2000, 17000 + (i - 1) * LineHeight,
             12, "0,0,0")]

\* generatePDF of part_001 (lines 93-163), for form data fd at clock t.
servicePdf(fd, t) ==
    LET pageWidth == PageWidth * 100
        sum == fd.totalHours * fd.hourlyRate
        blue == "59,130,246"
    IN  [prims |->
            << Text("title", 0, "INVOICE", <<>>, pageWidth \div 2, 3000, 24, blue),
               Text("metadata", 0, "Invoice Date: ", <<>>, 2000, 5000, 12, "0,0,0"),
               Text("metadata", 0, "Invoice #: INV-", <<t>>, 2000, 6000, 12, "0,0,0"),
               Text("from", 0, "From:", <<>>, 2000, 8000, 14, blue),
               Text("from", 0, "", <<fd.userName>>, 2000, 9000, 12, "0,0,0"),
               Text("from", 0, "", <<fd.userEmail>>, 2000, 10000, 12, "0,0,0"),
               Text("to", 0, "To:", <<>>, 2000, 12000, 14, blue),
               Text("to", 0, "", <<fd.clientName>>, 2000, 13000, 12, "0,0,0"),
               Text("description", 0, "Service Description:", <<>>, 2000, 16000, 14, blue) >>
            \o drawDescription(splitTextToSize(fd.serviceDescription, 1, 0, <<>>))
            \o
            << Text("tableHeader", 0, "rect", <<pageWidth - 4000, 1000>>, 2000,
                    tableStartY, 12, blue),
               Text("tableHeader", 0, "Description", <<>>, 2500, tableStartY + 700,
                    12, "255,255,255"),
               Text("tableHeader", 0, "Hours", <<>>, 10000, tableStartY + 700,
                    12, "255,255,255"),
               Text("tableHeader", 0, "Rate", <<>>, 13000, tableStartY + 700,
                    12, "255,255,255"),
               Text("tableHeader", 0, "Total", <<>>, 16000, tableStartY + 700,
                    12, "255,255,255"),
               Text("row", 1, "Professional Services", <<>>, 2500, tableStartY + 2000,
                    12, "0,0,0"),
               Text("row", 1, "", <<fd.totalHours>>, 10000, tableStartY + 2000,
                    12, "0,0,0"),
               Text("row", 1, "$", <<toFixed2(fd.hourlyRate)>>, 13000,
                    tableStartY + 2000, 12, "0,0,0"),
               Text("row", 1, "$", <<toFixed2(sum)>>, 16000, tableStartY + 2000,
                    12, "0,0,0"),
               Text("totals", 0, "Total Amount: $", <<toFixed2(sum)>>,
                    pageWidth - 8000, tableStartY + 4000, 14, blue),
               Text("footer", 0, "Thank you for your business!", <<>>,
                    pageWidth \div 2, 27000, 10, "128,128,128") >>,
         pages |-> 1,
         fileName |-> "",
         saved |-> TRUE,
         from |-> fd]

\* The button, were it never disabled.
buttonNeverDisabled == FALSE

\* disabled={isGenerating || isSending} (line 426).
buttonDisabled == isGenerating \/ isSending

\* The "Generate & Send Invoice" button, up to the await of sendEmail.  The
\* button is disabled while either busy flag is set.
handleGenerateAndSend ==
    /\ ~buttonDisabled
    /\ IF validateForm(formData) # ""
       THEN /\ toast' = validateForm(formData)
            /\ UNCHANGED <<now, formData, isGenerating, isSending, pdfData, pending>>
       ELSE /\ now < MaxNow
            /\ now' = now + 1
            /\ isGenerating' = TRUE
            /\ isSending' = TRUE
            /\ pdfData' = servicePdf(formData, now + 1)
            /\ pending' = Append(pending, [to |-> formData.userEmail,
                                           clientName |-> formData.clientName,
                                           stamp |-> now + 1])
            /\ UNCHANGED <<formData, toast>>
    /\ UNCHANGED <<widgetVars, itemVars, formVars, themeVars, doc, caught>>

\* What the awaited sendEmail call settles with: { error } with no error,
\* { error } with an error text, or a rejection with a reason.
SendOutcomes ==
    { [kind |-> "sent", error |-> ""],
      [kind |-> "error", error |-> "Email service unavailable"],
      [kind |-> "rejected", error |-> "Network error"] }

\* The form reset, were it made whatever the outcome.
formDataAfterAlwaysReset(outcome, fd) == InitialFormData

\* The form data after the handler: reset after the success toast (lines
\* 214-221), untouched by the catch block.
formDataAfter(outcome, fd) ==
    IF outcome.kind = "sent" THEN InitialFormData ELSE fd

\* The busy flags, were they cleared at the end of the try block only.
busyAfterNoFinally(outcome) == outcome.kind # "sent"

\* The busy flags after the handler: the finally block clears both (lines
\* 232-235).
busyAfter(outcome) == FALSE

\* The awaited sendEmail call settles and the handler runs to its end: the
\* success toast and the form reset, or the catch block (the error is
\* logged, the toast has a fixed text); then the finally block.
sendEmailSettled ==
    /\ pending # <<>>
    /\ \E outcome \in SendOutcomes :
          /\ IF outcome.kind = "sent"
             THEN /\ toast' = "Your invoice has been generated and sent to your email."
                  /\ UNCHANGED caught
             ELSE /\ toast' = "Failed to generate or send the invoice. Please try again."
                  /\ caught' = outcome.error
          /\ formData' = formDataAfter(outcome, formData)
          /\ isGenerating' = busyAfter(outcome)
          /\ isSending' = busyAfter(outcome)
    /\ pending' = Tail(pending)
    /\ UNCHANGED <<widgetVars, now, itemVars, formVars, themeVars, doc, pdfData>>

NextService ==
    \/ handleInputChange
    \/ handleGenerateAndSend
    \/ sendEmailSettled

SpecService == Init /\ [][NextService]_vars

\* A sendEmail call that settles: its continuation is run by the event loop.
SpecServiceFair == SpecService /\ WF_vars(sendEmailSettled)

\* The two exports side by side: the download of the multi-item form and
\* the generate-and-send flow of the single-service form.
NextExports ==
    \/ setInvoiceNumber
    \/ generatePDF
    \/ handleInputChange
    \/ handleGenerateAndSend
    \/ sendEmailSettled

SpecExports == Init /\ [][NextExports]_vars

-----------------------------------------------------------------------------
(* The expense matcher (ExpenseReceiptMatcher.tsx). *)

\* The file lists picked in the file input, as the files' MIME types.
FileLists == { <<"image/png">>, <<"application/pdf", "text/plain">> }

\* file.type.includes(word)
includes(type, word) ==
    \/ type = "image/png" /\ word = "image"
    \/ type = "application/pdf" /\ word = "pdf"

\* The files handleFileUpload keeps.
validFilesOf(files) ==
    LET valid(type) == includes(type, "image") \/ includes(type, "pdf")
    IN  SelectSeq(files, valid)

\* The file input's onChange: a toast when a file was dropped, and the
\* functional update that appends the valid files.
handleFileUpload ==
    \E files \in FileLists :
        /\ Len(uploadedFiles) + Len(validFilesOf(files)) <= MaxFiles
        /\ toast' = IF Len(validFilesOf(files)) # Len(files)
                    THEN "Only image and PDF files are supported."
                    ELSE toast
        /\ uploadedFiles' = uploadedFiles \o validFilesOf(files)
        /\ UNCHANGED <<now, itemVars, formVars, themeVars, doc, serviceVars,
                       isProcessing, extractedExpenses, selectedItems,
                       processing, botVars>>

\* removeFile(index): the file at the index (counted from 1 here) is
\* filtered out.
removeFile ==
    \E index \in 1..Len(uploadedFiles) :
        /\ uploadedFiles' = [i \in 1..(Len(uploadedFiles) - 1) |->
                                IF i < index THEN uploadedFiles[i]
                                             ELSE uploadedFiles[i + 1]]
        /\ UNCHANGED <<now, itemVars, formVars, themeVars, doc, toast,
                       serviceVars, isProcessing, extractedExpenses,
                       selectedItems, processing, botVars>>

\* The "Process" button is disabled.
processDisabled == isProcessing \/ Len(uploadedFiles) = 0

\* processReceipts up to its await: the check of the file list, then the
\* processing flag is raised.
processReceipts ==
    /\ ~processDisabled
    /\ IF Len(uploadedFiles) = 0
       THEN /\ toast' = "Please upload receipt files first."
            /\ UNCHANGED <<isProcessing, processing>>
       ELSE /\ isProcessing' = TRUE
            /\ processing' = processing + 1
            /\ UNCHANGED toast
    /\ UNCHANGED <<now, itemVars, formVars, themeVars, doc, serviceVars,
                   uploadedFiles, extractedExpenses, selectedItems, botVars>>

\* processReceipts after its await: the mock expenses are stored, the flag
\* is lowered.
processReceiptsDone ==
    /\ processing > 0
    /\ processing' = processing - 1
    /\ extractedExpenses' = mockExpenses
    /\ isProcessing' = FALSE
    /\ toast' = "Found 4 billable items from your receipts."
    /\ UNCHANGED <<now, itemVars, formVars, themeVars, doc, serviceVars,
                   uploadedFiles, selectedItems, botVars>>

\* toggleItemSelection's updater: a copy of the set without the id when it
\* has it, with the id when it has not.
toggled(prev, itemId) ==
    IF itemId \in prev THEN prev \ {itemId} ELSE prev \cup {itemId}

\* A click on the row of an extracted expense.
toggleItemSelection ==
    \E k \in 1..Len(extractedExpenses) :
        /\ selectedItems' = toggled(selectedItems, extractedExpenses[k].id)
        /\ UNCHANGED <<now, itemVars, formVars, themeVars, doc, toast,
                       serviceVars, isProcessing, uploadedFiles,
                       extractedExpenses, processing, botVars>>

\* The extracted expenses in reverse order.
RECURSIVE Reversed(_)
Reversed(seq) ==
    IF seq = <<>> THEN <<>> ELSE Reversed(Tail(seq)) \o <<Head(seq)>>

\* The selected expenses, were they collected last first.
selectedExpensesReversed(extracted, selected) ==
    LET has(item) == item.id \in selected
    IN  Reversed(SelectSeq(extracted, has))

\* extractedExpenses.filter(item => selectedItems.has(item.id))
selectedExpensesOf(extracted, selected) ==
    LET has(item) == item.id \in selected
    IN  SelectSeq(extracted, has)

\* The text of the count in the "Items Added!" toast.
CountText(n) == <<"1", "2", "3", "4">>[n]

\* addSelectedToInvoice: a toast when no extracted expense is selected;
\* else the selected expenses go to onAddToInvoice (handleExpenseItemsAdd
\* of the invoice form), and the three states are reset.  The handler's own
\* check covers the case in which its button is disabled.
addSelectedToInvoice ==
    LET selectedExpenses == selectedExpensesOf(extractedExpenses, selectedItems)
    IN  IF Len(selectedExpenses) = 0
        THEN /\ toast' = "Please select items to add to your invoice."
             /\ UNCHANGED <<now, itemVars, formVars, themeVars, doc,
                            serviceVars, widgetVars>>
        ELSE \E t \in DateNow :
               \E rs \in [1..Len(selectedExpenses) -> RandomOutcomes] :
                 /\ Len(items) + Len(selectedExpenses) <= MaxListed
                 /\ now' = t
                 /\ Render(handleExpenseItemsAddList(items, selectedExpenses, t, rs))
                 /\ toast' = CountText(Len(selectedExpenses))
                                \o " items added to your invoice."
                 /\ selectedItems' = {}
                 /\ extractedExpenses' = <<>>
                 /\ uploadedFiles' = <<>>
                 /\ UNCHANGED <<formVars, themeVars, doc, serviceVars,
                                isProcessing, processing, botVars>>

\* The expense matcher and the item list it feeds.
NextMatcher ==
    \/ handleFileUpload
    \/ removeFile
    \/ processReceipts
    \/ processReceiptsDone
    \/ toggleItemSelection
    \/ addSelectedToInvoice

SpecMatcher == Init /\ [][NextMatcher]_vars

-----------------------------------------------------------------------------
(* The dispute bot (DisputeResolverBot.tsx). *)

\* Texts typed into the bot's invoice number, client name and amount inputs.
BotInvoiceNumberTexts == {"", "INV-7"}
BotClientNameTexts == {"", " ", "Acme"}
AmountTexts == {"", "50.00", "-5"}

\* The options of the message type select and the tone buttons.
MessageTypes == {"reminder", "dispute", "final-notice"}
Tones == {"friendly", "professional", "firm"}

\* updateContext(field, value) from the three inputs generateMessages
\* checks; the amount input passes parseFloat(e.target.value) || 0.
updateContext ==
    /\ \/ \E s \in BotInvoiceNumberTexts :
             context' = [context EXCEPT !.invoiceNumber = s]
       \/ \E s \in BotClientNameTexts :
             context' = [context EXCEPT !.clientName = s]
       \/ \E s \in AmountTexts :
             context' = [context EXCEPT !.amount = OrElse(parseFloat(s, 10000), 0)]
    /\ UNCHANGED <<now, itemVars, formVars, themeVars, doc, toast, serviceVars,
                   matcherVars, isGeneratingMessages, messageType, tone,
                   generatedMessages, generating>>

\* The message type select's onValueChange.
setMessageType ==
    \E value \in MessageTypes :
        /\ messageType' = value
        /\ UNCHANGED <<now, itemVars, formVars, themeVars, doc, toast,
                       serviceVars, matcherVars, isGeneratingMessages, context,
                       tone, generatedMessages, generating>>

\* A click on a tone button.
setTone ==
    \E toneOption \in Tones :
        /\ tone' = toneOption
        /\ UNCHANGED <<now, itemVars, formVars, themeVars, doc, toast,
                       serviceVars, matcherVars, isGeneratingMessages, context,
                       messageType, generatedMessages, generating>>

\* generateMessages' check of the context.
missingInformation(ctx) ==
    ctx.invoiceNumber = "" \/ ctx.clientName = "" \/ ctx.amount <= 0

\* generateMessages up to its await: the check, then the flag is raised.
\* The continuation keeps the context, the type and the tone its closure
\* read.  The button is disabled while isGenerating.
generateMessages ==
    /\ ~isGeneratingMessages
    /\ IF missingInformation(context)
       THEN /\ toast' = "Please fill in invoice number, client name, and amount."
            /\ UNCHANGED <<isGeneratingMessages, generating>>
       ELSE /\ isGeneratingMessages' = TRUE
            /\ generating' = Append(generating,
                                 [context |-> context, messageType |-> messageType,
                                  tone |-> tone])
            /\ UNCHANGED toast
    /\ UNCHANGED <<now, itemVars, formVars, themeVars, doc, serviceVars,
                   matcherVars, context, messageType, tone, generatedMessages>>

\* The mock messages without the second, firm reminder.
mockMessagesOneEach(type, tn, ctx) ==
    CASE type = "reminder" ->
           << [id |-> "1", type |-> "reminder", tone |-> tn,
               subject |-> "Payment Reminder: Invoice " \o ctx.invoiceNumber,
               followUpDays |-> 7] >>
      [] type = "dispute" ->
           << [id |-> "3", type |-> "dispute", tone |-> tn,
               subject |-> "Re: Dispute Resolution - Invoice " \o ctx.invoiceNumber,
               followUpDays |-> 3] >>
      [] type = "final-notice" ->
           << [id |-> "4", type |-> "final-notice", tone |-> "firm",
               subject |-> "FINAL NOTICE: Invoice " \o ctx.invoiceNumber
                             \o " - Immediate Action Required",
               followUpDays |-> 2] >>

\* The mock messages built after the await (the long content texts are left
\* out).
mockMessages(type, tn, ctx) ==
    CASE type = "reminder" ->
           << [id |-> "1", type |-> "reminder", tone |-> tn,
               subject |-> "Payment Reminder: Invoice " \o ctx.invoiceNumber,
               followUpDays |-> 7] >>
           \o (IF tn = "firm"
               THEN << [id |-> "2", type |-> "reminder", tone |-> "firm",
                        subject |-> "Urgent: Overdue Payment Required - Invoice "
                                      \o ctx.invoiceNumber,
                        followUpDays |-> 5] >>
               ELSE <<>>)
      [] type = "dispute" ->
           << [id |-> "3", type |-> "dispute", tone |-> tn,
               subject |-> "Re: Dispute Resolution - Invoice " \o ctx.invoiceNumber,
               followUpDays |-> 3] >>
      [] type = "final-notice" ->
           << [id |-> "4", type |-> "final-notice", tone |-> "firm",
               subject |-> "FINAL NOTICE: Invoice " \o ctx.invoiceNumber
                             \o " - Immediate Action Required",
               followUpDays |-> 2] >>

\* generateMessages after its await: the messages are stored, the flag is
\* lowered, the toast names their number and type.
generateMessagesDone ==
    /\ generating # <<>>
    /\ LET closure == Head(generating)
           messages == mockMessages(closure.messageType, closure.tone,
                                    closure.context)
       IN  /\ generatedMessages' = messages
           /\ toast' = "Created " \o CountText(Len(messages)) \o " professional "
                          \o closure.messageType \o " message(s)."
    /\ generating' = Tail(generating)
    /\ isGeneratingMessages' = FALSE
    /\ UNCHANGED <<now, itemVars, formVars, themeVars, doc, serviceVars,
                   matcherVars, context, messageType, tone>>

\* The dispute bot.
NextBot ==
    \/ updateContext
    \/ setMessageType
    \/ setTone
    \/ generateMessages
    \/ generateMessagesDone

SpecBot == Init /\ [][NextBot]_vars

\* The whole program: both forms, the expense matcher and the dispute bot.
Next ==
    \/ addItem
    \/ removeItem
    \/ updateItemDescription
    \/ updateItemQuantity
    \/ updateItemRate
    \/ handleExpenseItemsAdd
    \/ setInvoiceNumber
    \/ setNotes
    \/ handleClientInfoUpdate
    \/ handleThemeApply
    \/ generatePDF
    \/ handleInputChange
    \/ handleGenerateAndSend
    \/ sendEmailSettled
    \/ handleFileUpload
    \/ removeFile
    \/ processReceipts
    \/ processReceiptsDone
    \/ toggleItemSelection
    \/ addSelectedToInvoice
    \/ updateContext
    \/ setMessageType
    \/ setTone
    \/ generateMessages
    \/ generateMessagesDone

Spec == Init /\ [][Next]_vars

-----------------------------------------------------------------------------
(* Claims about the item list and the totals. *)

\* C1: in every state reached by addItem, removeItem, updateItem (description,
\* quantity, rate) and handleExpenseItemsAdd, every line item has
\* amount = quantity * rate.
C1_AmountIsQuantityTimesRate ==
    \A i \in 1..Len(items) : items[i].amount = items[i].quantity * items[i].rate

\* A list holding an edited item (quantity 2, rate 50.00) and an imported
\* expense.
C1_Witness ==
    /\ \E i \in 1..Len(items) :
          items[i].quantity = 2 /\ items[i].rate = Money(50, 0)
    /\ \E i \in 1..Len(items) : items[i].id[2] > 0

RECURSIVE SumOver(_, _)
\* The sum of f over the index set S.
SumOver(f, S) ==
    IF S = {} THEN 0
    ELSE LET i == CHOOSE j \in S : TRUE IN f[i] + SumOver(f, S \ {i})

\* C2: the subtotal shown is the sum of the amounts of the items in the list,
\* and total is subtotal + tax, after every add, remove, update and import.
C2_SubtotalAndTotal ==
    /\ subtotal = SumOver([i \in 1..Len(items) |-> items[i].amount], 1..Len(items))
    /\ total = subtotal + tax

\* Two items with amounts 100.00 and 87.50.
C2_Witness ==
    /\ Len(items) = 2
    /\ items[1].amount = Money(100, 0)
    /\ items[2].amount = Money(87, 50)
    /\ subtotal = Money(187, 50)
    /\ total = Money(202, 50)

\* C3: the tax value is round2(subtotal * 0.08), a whole number of cents.
C3_TaxIsRounded ==
    /\ tax = toFixed2((subtotal * 8) \div 100) * 100
    /\ tax % 100 = 0

\* C4: one item with quantity 2 and rate 50.00 gives amount 100.00,
\* subtotal 100.00, tax 8.00 and total 108.00.
C4_ScenarioA ==
    (/\ Len(items) = 1
     /\ items[1].quantity = 2
     /\ items[1].rate = Money(50, 0))
    => (/\ items[1].amount = Money(100, 0)
        /\ subtotal = Money(100, 0)
        /\ tax = Money(8, 0)
        /\ total = Money(108, 0))

\* The initial item, edited to quantity 2 and rate 50.00.
C4_Witness ==
    /\ Len(items) = 1
    /\ items[1].id = <<1, 0>>
    /\ items[1].quantity = 2
    /\ items[1].rate = Money(50, 0)
    /\ total = Money(108, 0)

-----------------------------------------------------------------------------
(* Claims about the exported document. *)

\* The invoice number the saved document prints.
printedNumber == doc.prims[2].val[1]

\* C5: nothing is drawn beyond the page's usable height: every drawn row,
\* totals line and notes line is on its page, at or above the page's bottom
\* (with a bottom margin of 0, the most the page allows).
C5_WithinPage ==
    doc.saved =>
        \A k \in 1..Len(doc.prims) :
            /\ doc.prims[k].page <= doc.pages
            /\ doc.prims[k].y <= PageHeight

\* C6: when the item table is higher than one page, the export opens a second
\* page, and the table's header row is drawn on it.
C6_HeaderRepeats ==
    (/\ doc.saved
     /\ \E k \in 1..Len(doc.prims) :
           doc.prims[k].region = "row" /\ doc.prims[k].y > PageHeight)
    => (/\ doc.pages >= 2
        /\ \E k \in 1..Len(doc.prims) :
              doc.prims[k].region = "tableHeader" /\ doc.prims[k].page = 2)

\* The lines of the notes text the saved document draws.
notesLines ==
    { k \in 1..Len(doc.prims) :
        doc.prims[k].region = "notes" /\ doc.prims[k].label = "" }

\* C7: notes of 500 characters, at 40 characters a line, are drawn as
\* ceil(500/40) = 13 lines, none longer than 40 characters.
C7_NotesWrapped ==
    (/\ doc.saved
     /\ \E k \in notesLines : TRUE
     /\ SumOver([k \in 1..Len(doc.prims) |-> doc.prims[k].val[1]], notesLines) = 500)
    => (/\ Cardinality(notesLines) = 13
        /\ \A k \in notesLines : doc.prims[k].val[1] <= 40)

\* The fixed order of the regions.
RegionRank(region) ==
    CASE region = "title"       -> 1
      [] region = "metadata"    -> 2
      [] region = "billTo"      -> 3
      [] region = "tableHeader" -> 4
      [] region = "row"         -> 5
      [] region = "totals"      -> 6
      [] region = "notes"       -> 7

\* The place of a drawn text in the fixed order: its region, then its row.
OrderKey(p) == RegionRank(p.region) * 100 + p.row

\* The y coordinates drawn in the region (or table row) with order key g.
YsOf(g) ==
    { doc.prims[k].y : k \in { n \in 1..Len(doc.prims) : OrderKey(doc.prims[n]) = g } }

\* The order keys of the regions and rows the saved document holds.
DrawnKeys == { OrderKey(doc.prims[k]) : k \in 1..Len(doc.prims) }

\* g is wholly above h on the page.
Above(g, h) == \A a \in YsOf(g), b \in YsOf(h) : a < b

\* The texts of the invoice metadata and of the bill-to block.
HeadBlock ==
    { k \in 1..Len(doc.prims) : doc.prims[k].region \in {"metadata", "billTo"} }

\* Regions are emitted in the fixed order, rows in list order.
EmittedInOrder ==
    \A k \in 1..(Len(doc.prims) - 1) :
        OrderKey(doc.prims[k]) <= OrderKey(doc.prims[k + 1])

C10_FileName ==
    doc.saved =>
        IF printedNumber = ""
        THEN doc.fileName \notin {"invoice-.pdf", ".pdf", ""}
        ELSE doc.fileName = "invoice-" \o printedNumber \o ".pdf"

-----------------------------------------------------------------------------
(* Claims about the single-service export. *)

\* The description lines the generated document draws.
descriptionLines ==
    { k \in 1..Len(pdfData.prims) :
        pdfData.prims[k].region = "description" /\ pdfData.prims[k].row > 0 }

\* C8: the item table starts at or below the last wrapped line of the service
\* description, however long the description is.
C8_TableBelowDescription ==
    pdfData.saved =>
        \A k \in descriptionLines : pdfData.prims[k].y <= tableStartY

-----------------------------------------------------------------------------
(* Claims about the theme. *)

\* The render values the preview resolves, and the colour of the exported
\* title (the one place the export reads the theme).
resolvedPreview ==
    [primary |-> previewHeadingColor, secondary |-> previewColor,
     accent |-> previewBorderColor, heading |-> previewHeadingFontFamily,
     body |-> previewFontFamily]

\* C11: with no theme applied the resolved render values are the built-in
\* defaults (primary #2563eb, secondary #1f2937, accent #f59e0b, inherited
\* fonts), in the preview and in the exported document.
C11_DefaultsWithoutTheme ==
    appliedTheme = NoTheme =>
        /\ resolvedPreview =
               [primary |-> "#2563eb", secondary |-> "#1f2937",
                accent |-> "#f59e0b", heading |-> "inherit", body |-> "inherit"]
        /\ primaryColor = "#2563eb"
        /\ doc.saved => doc.prims[1].color = "#2563eb"

\* No theme was ever applied and the invoice has been exported.
C11_Witness == appliedTheme = NoTheme /\ doc.saved /\ doc.prims[1].label = "INVOICE"

\* The value the claim expects for a field: the theme's when present, the
\* built-in default when absent.
Expected(theme, field) ==
    IF theme[field] # "" THEN theme[field]
    ELSE CASE field = "primary"   -> "#2563eb"
           [] field = "secondary" -> "#1f2937"
           [] field = "accent"    -> "#f59e0b"
           [] field = "heading"   -> "inherit"
           [] field = "body"      -> "inherit"

totalsPrims ==
    SelectSeq(doc.prims, LAMBDA p : p.region = "totals")

\* C13: in the exported document the Total line is drawn in the theme's
\* primary colour (the default primary without a theme) and larger than the
\* Subtotal and Tax lines.
C13_TotalInPrimary ==
    doc.saved =>
        /\ totalsPrims[3].label = "Total: $"
        /\ totalsPrims[3].color = Expected(doc.from.appliedTheme, "primary")
        /\ totalsPrims[3].size > totalsPrims[1].size
        /\ totalsPrims[3].size > totalsPrims[2].size

-----------------------------------------------------------------------------
(* Claims about the exports and the generate-and-send flow. *)

\* The invoice state the multi-item export is a function of.
invoiceState ==
    [invoiceNumber |-> invoiceNumber, clientInfo |-> clientInfo,
     items |-> items, notes |-> notes, appliedTheme |-> appliedTheme]

\* The primitives of a single-service export without the two lines that
\* print the generation time (the invoice date, the INV-<ms> number).
Untimed(prims) ==
    SelectSeq(prims, LAMBDA p : p.label \notin {"Invoice Date: ", "Invoice #: INV-"})

\* C14: an export from the invoice state the last export was made from
\* emits the same primitives (text, coordinates, sizes, colours) and the
\* same file name, apart from the embedded generation time, whatever else
\* happened in between.
C14_SameStateSameExport ==
    [][ /\ (generatePDF /\ doc.saved /\ doc.from = invoiceState) =>
              (doc'.prims = doc.prims /\ doc'.fileName = doc.fileName)
        /\ (handleGenerateAndSend /\ pdfData.saved /\ pdfData.from = formData
              /\ pending' # pending) =>
              (/\ Untimed(pdfData'.prims) = Untimed(pdfData.prims)
               /\ pdfData'.fileName = pdfData.fileName) ]_vars

\* A second single-service export was made from the form data of the first
\* (after a failed delivery), and the multi-item invoice has been exported.
C14_Witness ==
    /\ pdfData.saved /\ pdfData.from = formData /\ pending # <<>>
    /\ caught # "" /\ pdfData.prims[3].val = <<4>>
    /\ doc.saved /\ doc.from = invoiceState
    /\ toast = "Failed to generate or send the invoice. Please try again."

\* The form data the claim calls invalid.
InvalidForm(fd) ==
    \/ trim(fd.clientName) = ""
    \/ trimWords(fd.serviceDescription) = <<>>
    \/ trim(fd.userName) = ""
    \/ fd.totalHours <= 0
    \/ fd.hourlyRate <= 0
    \/ fd.userEmail = ""
    \/ ~includesAt(fd.userEmail)

\* C15: a click on Generate & Send with invalid form data produces no PDF,
\* sends no email and leaves the form data and the busy flags unchanged.
C15_InvalidFormBlocks ==
    [][ (handleGenerateAndSend /\ InvalidForm(formData)) =>
            UNCHANGED <<formData, isGenerating, isSending, pdfData, pending>> ]_vars

\* The click was refused for the email address alone, nothing generated yet.
C15_Witness ==
    /\ toast = "Please enter a valid email address"
    /\ formData.userEmail = "dana.test"
    /\ formData.clientName = "Acme" /\ formData.userName = "Dana"
    /\ pdfData = NoDoc /\ pending = <<>> /\ ~isGenerating /\ ~isSending

\* C16: the multi-item export produces a document only from validated
\* input: a non-empty client name, and a positive quantity and a positive
\* rate on every line item.
C16_ExportOnlyValidated ==
    doc.saved =>
        /\ doc.from.clientInfo.name # ""
        /\ \A i \in 1..Len(doc.from.items) :
               doc.from.items[i].quantity > 0 /\ doc.from.items[i].rate > 0

\* The step in which an awaited sendEmail call settles with a failure.
deliveryFails ==
    /\ pending # <<>> /\ pending' = Tail(pending)
    /\ toast' = "Failed to generate or send the invoice. Please try again."

\* C17: when delivery fails the delivery error is surfaced unmodified, and
\* the generated PDF is kept: the retry delivers it again without
\* generating a new document.
C17_DeliveryErrorAndArtifactKept ==
    [][ /\ deliveryFails => toast' = caught'
        /\ (handleGenerateAndSend /\ caught # "" /\ pending' # pending
             /\ pdfData.from = formData) => pdfData' = pdfData ]_vars

\* C18 as claimed: exports share no lock and no mutable state: the trigger
\* is available while an export awaits delivery, and the completion of an
\* export leaves the form data and the flags as they are.
C18_ExportsIndependent ==
    [][ /\ pending # <<>> => ~buttonDisabled
        /\ (pending # <<>> /\ pending' = Tail(pending)) =>
              UNCHANGED <<formData, isGenerating, isSending>> ]_vars

\* C18: exports are serialised: both busy flags are set from the click
\* until the sendEmail call settles and the button is disabled meanwhile, so
\* at most one export awaits delivery and no second one can be triggered.
C18_ExportsSerialised ==
    /\ Len(pending) <= 1
    /\ isGenerating <=> isSending
    /\ pending # <<>> <=> isSending
    /\ pending # <<>> => buttonDisabled

\* An export awaits delivery while the form holds valid data.
C18_Witness ==
    /\ pending # <<>> /\ isGenerating /\ isSending
    /\ validateForm(formData) = ""
    /\ pdfData.saved

-----------------------------------------------------------------------------
(* Claims about the handlers of the item list. *)

\* C19: an import appends one line item per imported expense, in the given
\* order, after the existing items, which are left unchanged; each new item
\* has quantity 1, the expense's amount as rate and as amount, and the
\* expense's description.
C19_ImportAppends ==
    [][ (addSelectedToInvoice /\ items' # items) =>
          LET expenses == selectedExpensesOf(extractedExpenses, selectedItems)
          IN  /\ Len(items') = Len(items) + Len(expenses)
              /\ SubSeq(items', 1, Len(items)) = items
              /\ \A k \in 1..Len(expenses) :
                    LET new == items'[Len(items) + k]
                    IN  /\ new.description = expenses[k].description
                        /\ new.quantity = 1
                        /\ new.rate = expenses[k].amount
                        /\ new.amount = expenses[k].amount ]_vars

\* The first two mock expenses were imported, in their order, after the
\* first item.
C19_Witness ==
    /\ Len(items) = 3
    /\ items[1] = InitialItem
    /\ items[2].description = "Office Supplies - Printer Paper"
    /\ items[2].quantity = 1 /\ items[2].rate = Money(24, 99)
    /\ items[3].description = "Business Lunch - Restaurant ABC"
    /\ items[3].quantity = 1 /\ items[3].amount = Money(87, 50)
    /\ items[2].id[1] = items[3].id[1] /\ items[2].id[2] # items[3].id[2]

\* item and its successor differ at most in field and, when field is the
\* quantity or the rate, in the derived amount.
OnlyFieldChanged(item, new, field) ==
    \A f \in {"id", "description", "quantity", "rate", "amount"} :
        (f # field /\ ~(f = "amount" /\ field \in {"quantity", "rate"}))
            => new[f] = item[f]

\* An edit of the given field of some row.
EditOf(field) ==
    CASE field = "description" -> updateItemDescription
      [] field = "quantity"    -> updateItemQuantity
      [] field = "rate"        -> updateItemRate

\* C20: updateItem(id, field, value) changes only the named field (and, for
\* quantity or rate, the derived amount) of the items whose id matches,
\* leaves the other items, the list's length and order unchanged, and
\* changes nothing else but the derived totals.
C20_EditFrame ==
    [][ \A field \in {"description", "quantity", "rate"} :
          EditOf(field) =>
            /\ Len(items') = Len(items)
            /\ \E i \in 1..Len(items) :
                  \A j \in 1..Len(items) :
                      IF items[j].id = items[i].id
                      THEN OnlyFieldChanged(items[j], items'[j], field)
                      ELSE items'[j] = items[j]
            /\ UNCHANGED <<widgetVars, now, formVars, themeVars, doc, toast, serviceVars>> ]_vars

\* The second of two items, an imported expense, was edited (its quantity,
\* hence its amount); the first item is untouched.
C20_Witness ==
    /\ Len(items) = 2
    /\ items[1] = InitialItem
    /\ items[2].quantity = 2 /\ items[2].amount = 2 * items[2].rate
    /\ items[2].rate = Money(24, 99)
    /\ items[2].description = "Office Supplies - Printer Paper"

-----------------------------------------------------------------------------
(* Claims about the values and the ids of the line items. *)

\* C21: in every reachable state every line item has a quantity >= 0 and a
\* rate >= 0, whatever is entered in the quantity and rate inputs.
C21_NonNegative ==
    \A i \in 1..Len(items) : items[i].quantity >= 0 /\ items[i].rate >= 0

\* C22: applying a theme changes the component's applied theme only and
\* leaves every document-level style property unchanged.
C22_NoGlobalStyle ==
    [][handleThemeApply => documentStyle' = documentStyle]_vars

\* C23: the line-item list is never empty.
C23_NeverEmpty == Len(items) >= 1

\* C24: item ids are pairwise distinct in every reachable state, also for
\* items added in quick succession.
C24_DistinctIds ==
    \A i, j \in 1..Len(items) : items[i].id = items[j].id => i = j

\* The list a call leaves when it runs on the latest list.
OnLatest(call, latest, t) == applyUpdate(latest, setItemsArgument(call, latest, t))

\* C25: a call that runs after another list update not yet rendered works
\* on the latest list and loses no earlier change: the batch leaves the
\* list the second call makes of the list the first call left (addItem
\* appending one new item with quantity 1, rate 0 and amount 0 to it).
C25_NoLostUpdate ==
    [][ \A t \in DateNow :
          \A c1 \in Appending(items), c2 \in Editing(items) :
            (/\ now' = t
             /\ items' = applyUpdate(applyUpdate(items,
                                                 setItemsArgument(c1, items, t)),
                                     setItemsArgument(c2, items, t)))
            => items' = OnLatest(c2, OnLatest(c1, items, t), t) ]_vars

-----------------------------------------------------------------------------
(* Claims about the form of the generate-and-send flow. *)

\* The step in which an awaited sendEmail call settles.
settles == pending # <<>> /\ pending' = Tail(pending)

\* C26: the form data is reset to its empty initial values if and only if
\* sendEmail completed without an error; a failure, like the click itself,
\* leaves the form data exactly as entered.
C26_ResetOnlyOnSuccess ==
    [][ /\ (settles /\ toast' = "Your invoice has been generated and sent to your email.")
              => formData' = InitialFormData
        /\ (settles /\ toast' = "Failed to generate or send the invoice. Please try again.")
              => formData' = formData
        /\ handleGenerateAndSend => formData' = formData ]_vars

\* A delivery failed and the form still holds the valid data entered.
C26_Witness ==
    /\ caught = "Network error" /\ pending = <<>>
    /\ toast = "Failed to generate or send the invoice. Please try again."
    /\ validateForm(formData) = "" /\ pdfData.from = formData

\* C27: isGenerating and isSending are equal, and true exactly while a
\* validated generate-and-send operation is in flight; once the sendEmail
\* call settles both become false again, so the button is not left
\* disabled.
C27_BusyWhileInFlight ==
    /\ [](isGenerating = isSending /\ (isSending <=> pending # <<>>))
    /\ [][settles => (~isGenerating' /\ ~isSending')]_vars
    /\ (isSending ~> ~buttonDisabled)

\* An operation was in flight and ended: the flags are down again.
C27_Witness ==
    /\ ~isGenerating /\ ~isSending /\ pending = <<>>
    /\ pdfData.saved /\ toast # ""

\* The six checks in their fixed order: whether each fails on fd, and the
\* error it reports.
Checks(fd) ==
    << [fails |-> trim(fd.clientName) = "",
        error |-> "Please enter the client's name"],
       [fails |-> trimWords(fd.serviceDescription) = <<>>,
        error |-> "Please enter a service description"],
       [fails |-> fd.totalHours <= 0,
        error |-> "Please enter valid total hours"],
       [fails |-> fd.hourlyRate <= 0,
        error |-> "Please enter a valid hourly rate"],
       [fails |-> trim(fd.userName) = "",
        error |-> "Please enter your name"],
       [fails |-> trim(fd.userEmail) = "" \/ ~includesAt(fd.userEmail),
        error |-> "Please enter a valid email address"] >>

\* The checks that fail on fd.
Failing(fd) == { k \in 1..6 : Checks(fd)[k].fails }

\* C28: validateForm passes if and only if all six checks pass; on failure
\* exactly the error of the first failing check is reported, and the form
\* data is never changed.
C28_FirstFailingCheck ==
    [][ /\ (validateForm(formData) = "") <=> (Failing(formData) = {})
        /\ handleGenerateAndSend =>
              /\ formData' = formData
              /\ IF Failing(formData) = {}
                 THEN toast' = toast /\ pending' # pending
                 ELSE /\ pending' = pending
                      /\ \E k \in Failing(formData) :
                            /\ \A j \in Failing(formData) : k <= j
                            /\ toast' = Checks(formData)[k].error ]_vars

\* Two checks fail (user name, user email) and the first one is reported.
C28_Witness ==
    /\ Failing(formData) = {5, 6}
    /\ toast = "Please enter your name"
    /\ pending = <<>>

-----------------------------------------------------------------------------
(* Claims about the expense matcher and the dispute bot. *)

\* The positions of the extracted expenses whose ids are selected.
Chosen == { k \in 1..Len(extractedExpenses) :
              extractedExpenses[k].id \in selectedItems }

\* C29: addSelectedToInvoice hands to the invoice exactly the extracted
\* expenses whose ids are selected, in extraction order, and then clears the
\* selection, the extracted expenses and the uploaded files; when none is
\* selected the invoice gets nothing and the three are unchanged.  Toggling
\* the same item twice restores the selection.
C29_HandsOverSelected ==
    [][ /\ addSelectedToInvoice =>
              IF Chosen = {}
              THEN /\ items' = items
                   /\ UNCHANGED <<selectedItems, extractedExpenses, uploadedFiles>>
              ELSE /\ Len(items') = Len(items) + Cardinality(Chosen)
                   /\ \A k \in Chosen :
                         LET rank == Cardinality({ j \in Chosen : j <= k })
                         IN  items'[Len(items) + rank].description
                                 = extractedExpenses[k].description
                   /\ selectedItems' = {}
                   /\ extractedExpenses' = <<>>
                   /\ uploadedFiles' = <<>>
        /\ \A k \in 1..Len(extractedExpenses) :
              LET id == extractedExpenses[k].id
              IN  toggled(toggled(selectedItems, id), id) = selectedItems ]_vars

\* The second and the fourth extracted expense were selected and handed
\* over, in that order; the matcher is cleared.
C29_Witness ==
    /\ Len(items) = 3
    /\ items[2].description = "Business Lunch - Restaurant ABC"
    /\ items[3].description = "Software License - Design Tool"
    /\ toast = "2 items added to your invoice."
    /\ selectedItems = {} /\ extractedExpenses = <<>> /\ uploadedFiles = <<>>

\* C30: generateMessages produces messages only when the invoice number and
\* the client name are non-empty and the amount is positive (otherwise the
\* generated messages and the busy flag are unchanged); the messages stored
\* all have the type selected when the generation started, two of them for
\* a firm reminder and one otherwise; the bot's isGenerating is true exactly
\* from the start until the results are stored.
C30_MessagesOfStartedType ==
    /\ [](isGeneratingMessages <=> generating # <<>>)
    /\ [][ /\ generateMessages =>
                IF context.invoiceNumber # "" /\ context.clientName # ""
                      /\ context.amount > 0
                THEN /\ isGeneratingMessages'
                     /\ generating'[Len(generating')].messageType = messageType
                     /\ generating'[Len(generating')].tone = tone
                     /\ generatedMessages' = generatedMessages
                ELSE /\ generatedMessages' = generatedMessages
                     /\ isGeneratingMessages' = isGeneratingMessages
                     /\ generating' = generating
           /\ generateMessagesDone =>
                LET started == Head(generating)
                IN  /\ \A k \in 1..Len(generatedMessages') :
                          generatedMessages'[k].type = started.messageType
                    /\ Len(generatedMessages') =
                          IF started.messageType = "reminder" /\ started.tone = "firm"
                          THEN 2 ELSE 1
                    /\ ~isGeneratingMessages'
           /\ generatedMessages' # generatedMessages => generateMessagesDone ]_vars

\* Two firm reminders were stored although the type and the tone were
\* changed while they were generated.
C30_Witness ==
    /\ Len(generatedMessages) = 2
    /\ generatedMessages[1].type = "reminder"
    /\ generatedMessages[2].type = "reminder"
    /\ messageType = "dispute" /\ tone = "friendly"
    /\ ~isGeneratingMessages

=============================================================================
